---- MODULE Spec2Model ----
(***************************************************************************)
(* gobfk: a Brainfuck interpreter (gobfk.go).                              *)
(*                                                                         *)
(* A BrainfuckProgram holds the tokenized Instructions, a Tape of bytes,   *)
(* the data pointer DP, the program counter PC and the Finished flag.      *)
(* CreateBrainfuckProgram builds one from a source text; the caller (main) *)
(* then calls Evaluate while Finished is false.                            *)
(*                                                                         *)
(* Texts are sequences of code points.  Go slices are references: a Tape   *)
(* is an address into `heap`, allocated by make.  Go indexes from 0, TLA+  *)
(* sequences from 1: At(s, i) reads s[i] of the Go code.  An index out of  *)
(* range is a Go run-time panic, which ends the process: `panicked`.       *)
(***************************************************************************)
EXTENDS Integers, Sequences, FiniteSets, TLC

(***************************************************************************)
(* Bounds of the model.                                                    *)
(***************************************************************************)
\* longest source text of the exhaustive part of Sources
MaxLen == 3
\* longest run of '+' of the sources IncSources
MaxInc == 257
\* longest content of the standard input
MaxIn == 2
\* Evaluate calls per program that Spec and SpecTwo follow
MaxSteps == 24
\* longest source text two programs are created from in SpecTwo
MaxLenTwo == 2
\* cells of a tape: make([]byte, 64000) in the code, scaled down so that
\* both ends of the tape are within reach of the sources
TapeLen == 3

(***************************************************************************)
(* Tokens (gobfk.go:29-40), an iota enumeration of bytes.                  *)
(***************************************************************************)
COMMENT == 0
RIGHT == 1
LEFT == 2
INC == 3
DEC == 4
PRINT == 5
READ == 6
LOOPL == 7
LOOPR == 8

(***************************************************************************)
(* The characters the tokenizer tells apart (gobfk.go:90-105), and two     *)
(* of the others: a letter and the newline.                                *)
(***************************************************************************)
ChRight == 62
ChLeft == 60
ChInc == 43
ChDec == 45
ChPrint == 46
ChRead == 44
ChLoopL == 91
ChLoopR == 93
ChLetter == 97
ChNewline == 10

\* a byte has 8 bits: byte arithmetic is modulo ByteMod
ByteMod == 256

SourceChars ==
  {ChRight, ChLeft, ChInc, ChDec, ChPrint, ChRead, ChLoopL, ChLoopR,
   ChLetter, ChNewline}

\* characters of the standard input: NUL, 'A', and U+0142 whose code point
\* does not fit a byte
InChars == {0, 65, 322}

SeqsUpTo(S, n) == UNION {[1..k -> S] : k \in 0..n}

Repeat(c, n) == [i \in 1..n |-> c]

\* source texts of the scenarios: loops, nested loops, unmatched brackets
Scenarios ==
  { <<ChInc, ChLoopL, ChDec, ChLoopR>>,
    <<ChInc, ChInc, ChPrint>>,
    <<ChInc, ChLoopL, ChLoopL, ChDec, ChLoopR, ChLoopR>>,
    <<ChInc, ChInc, ChLoopL, ChRight, ChInc, ChLeft, ChDec, ChLoopR, ChRight, ChPrint>>,
    <<ChLoopL, ChLoopL, ChLoopR, ChInc, ChLoopR, ChPrint>>,
    <<ChRead, ChLoopL, ChPrint, ChDec, ChLoopR>>,
    <<ChRead, ChPrint, ChRead, ChPrint>>,
    <<ChInc, ChLoopL, ChRight, ChInc, ChLoopR>>,
    <<ChInc, ChLoopL, ChDec, ChLoopR, ChLoopR>>,
    <<ChLoopL, ChLoopL, ChLoopR>>,
    <<ChInc, ChLoopL, ChLoopL, ChDec, ChLoopR>>,
    <<ChInc, ChLoopL, ChDec, ChLoopR, ChLoopL, ChDec, ChLoopR>>,
    Repeat(ChRight, TapeLen) \o <<ChLeft, ChInc, ChPrint>>,
    <<ChLeft, ChRight, ChDec, ChInc, ChPrint>> }

Sources == SeqsUpTo(SourceChars, MaxLen) \cup Scenarios

\* k times '+' followed by "." or by "[-]"
IncSources ==
  { Repeat(ChInc, k) \o tail :
      k \in 0..MaxInc, tail \in {<<ChPrint>>, <<ChLoopL, ChDec, ChLoopR>>} }

TwoSources ==
  SeqsUpTo(SourceChars, MaxLenTwo)
    \cup { <<ChInc, ChLoopL, ChDec, ChLoopR>>,
           <<ChDec, ChRight, ChRead, ChPrint>>,
           <<ChInc, ChLoopL, ChRight, ChInc, ChLoopR>> }

ProgIds == {"a", "b"}

NoProg == [Created |-> FALSE]

VARIABLES
  input,     \* the source text handed to CreateBrainfuckProgram
  bf,        \* ProgIds -> BrainfuckProgram, NoProg before its creation
  heap,      \* the byte slices allocated by make: address -> array
  stdinData, \* the characters of os.Stdin, read and unread
  stdinPos,  \* how many of them have been consumed
  stdout,    \* the characters printed so far
  panicked,  \* a run-time panic has ended the process
  steps,     \* ProgIds -> number of Evaluate calls begun
  hits       \* ProgIds -> times each instruction was dispatched, by index

vars == <<input, bf, heap, stdinData, stdinPos, stdout, panicked, steps, hits>>

(***************************************************************************)
(* Go indexing: s[i] with 0 <= i < len(s), a panic otherwise.              *)
(***************************************************************************)
InRange(i, n) == i >= 0 /\ i < n

At(s, i) == s[i + 1]

(***************************************************************************)
(* tokenize (gobfk.go:86-111): one token appended per character.           *)
(***************************************************************************)
\* tokenize with the default case appending nothing
TokenOfDropsOthers(char) ==
  CASE char = ChRight -> <<RIGHT>>
    [] char = ChLeft -> <<LEFT>>
    [] char = ChInc -> <<INC>>
    [] char = ChDec -> <<DEC>>
    [] char = ChPrint -> <<PRINT>>
    [] char = ChRead -> <<READ>>
    [] char = ChLoopL -> <<LOOPL>>
    [] char = ChLoopR -> <<LOOPR>>
    [] OTHER -> <<>>

TokenOf(char) ==
  CASE char = ChRight -> <<RIGHT>>
    [] char = ChLeft -> <<LEFT>>
    [] char = ChInc -> <<INC>>
    [] char = ChDec -> <<DEC>>
    [] char = ChPrint -> <<PRINT>>
    [] char = ChRead -> <<READ>>
    [] char = ChLoopL -> <<LOOPL>>
    [] char = ChLoopR -> <<LOOPR>>
    [] OTHER -> <<COMMENT>>

\* the tokens appended for the characters text[lo..hi], in order; the loop
\* over the characters is evaluated by halves
RECURSIVE tokenizeRange(_, _, _)
tokenizeRange(text, lo, hi) ==
  IF lo > hi THEN <<>>
  ELSE IF lo = hi THEN TokenOf(text[lo])
  ELSE tokenizeRange(text, lo, (lo + hi) \div 2)
         \o tokenizeRange(text, (lo + hi) \div 2 + 1, hi)

tokenize(text) == tokenizeRange(text, 1, Len(text))

(***************************************************************************)
(* CreateBrainfuckProgram (gobfk.go:74-83).  make([]byte, n) allocates a   *)
(* fresh zeroed array: a new address of the heap.                          *)
(***************************************************************************)
ZeroTape == [i \in 0..(TapeLen - 1) |-> 0]

NewAddress(h) == Len(h) + 1

MakeTape(h) == Append(h, ZeroTape)

\* CreateBrainfuckProgram handing every program the first tape allocated
CreateSharedTape(text, h) ==
  [Created |-> TRUE,
   Instructions |-> tokenize(text),
   Tape |-> 1,
   DP |-> 0,
   PC |-> 0,
   Finished |-> FALSE]

CreateBrainfuckProgram(text, h) ==
  [Created |-> TRUE,
   Instructions |-> tokenize(text),
   Tape |-> NewAddress(h),
   DP |-> 0,
   PC |-> 0,
   Finished |-> FALSE]

Create(p) ==
  /\ ~bf[p].Created
  /\ ~panicked
  /\ bf' = [bf EXCEPT ![p] = CreateBrainfuckProgram(input, heap)]
  /\ heap' = MakeTape(heap)
  /\ hits' = [hits EXCEPT ![p] = [i \in 1..Len(tokenize(input)) |-> 0]]
  /\ UNCHANGED <<input, stdinData, stdinPos, stdout, panicked, steps>>

(***************************************************************************)
(* Byte arithmetic and conversions of Evaluate (gobfk.go:121-130).         *)
(***************************************************************************)
\* cells that stop at 255
IncByteSaturating(b) == IF b = 255 THEN 255 ELSE b + 1

\* cells wider than a byte
IncByteNoWrap(b) == b + 1

IncByte(b) == (b + 1) % ByteMod

DecByte(b) == (b - 1) % ByteMod

\* the code point stored as it is
ToByteNoTruncate(char) == char

\* byte(char): the low 8 bits of the code point
ToByte(char) == char % ByteMod

\* a print that shows nothing for NUL
PrintCharSkipsNul(b) == IF b = 0 THEN <<>> ELSE <<b>>

\* fmt.Printf("%c", b): the character whose code point is b
PrintChar(b) == <<b>>

\* ReadRune answering the end of the input with -1
ReadRuneMinusOneAtEnd(data, pos) == IF pos < Len(data) THEN data[pos + 1] ELSE -1

\* reader.ReadRune() on a fresh bufio.Reader: the first unread character, or
\* the zero rune when the read fails at the end of the input
ReadRune(data, pos) == IF pos < Len(data) THEN data[pos + 1] ELSE 0

\* the characters one fill of a fresh bufio.Reader may take from os.Stdin:
\* at least one, at most all there are; the reader and what it buffered
\* beyond the first character are dropped after the read
Fills(data, pos) == IF pos < Len(data) THEN 1..(Len(data) - pos) ELSE {0}

(***************************************************************************)
(* openLoop (gobfk.go:143-155) and closeLoop (gobfk.go:157-170): the       *)
(* result is the PC the scan leaves, and whether it ended without an       *)
(* index out of range.                                                     *)
(***************************************************************************)
RECURSIVE openScan(_, _, _)
openScan(instrs, pc, balance) ==
  IF balance = 0 THEN [PC |-> pc, ok |-> TRUE]
  ELSE IF ~InRange(pc + 1, Len(instrs)) THEN [PC |-> pc + 1, ok |-> FALSE]
  ELSE IF At(instrs, pc + 1) = LOOPL THEN openScan(instrs, pc + 1, balance + 1)
  ELSE IF At(instrs, pc + 1) = LOOPR THEN openScan(instrs, pc + 1, balance - 1)
  ELSE openScan(instrs, pc + 1, balance)

\* openLoop scanning whatever the cell holds
openLoopAlwaysScans(instrs, pc, cell) == openScan(instrs, pc, 1)

\* openLoop with the test of the cell inverted
openLoopInverted(instrs, pc, cell) ==
  IF cell # 0 THEN openScan(instrs, pc, 1) ELSE [PC |-> pc, ok |-> TRUE]

\* openLoop stopping at the first loop-close, nested or not
openLoopFirstClose(instrs, pc, cell) ==
  IF cell = 0
  THEN LET later == {j \in (pc + 1)..(Len(instrs) - 1) : At(instrs, j) = LOOPR}
       IN IF later = {} THEN [PC |-> Len(instrs), ok |-> FALSE]
          ELSE [PC |-> CHOOSE j \in later : \A k \in later : j <= k, ok |-> TRUE]
  ELSE [PC |-> pc, ok |-> TRUE]

openLoop(instrs, pc, cell) ==
  IF cell = 0 THEN openScan(instrs, pc, 1) ELSE [PC |-> pc, ok |-> TRUE]

closeBalance(tok, balance) ==
  IF tok = LOOPL THEN balance + 1
  ELSE IF tok = LOOPR THEN balance - 1
  ELSE balance

RECURSIVE closeScan(_, _, _)
closeScan(instrs, pc, balance) ==
  IF ~InRange(pc, Len(instrs)) THEN [PC |-> pc, ok |-> FALSE]
  ELSE IF closeBalance(At(instrs, pc), balance) = 0 THEN [PC |-> pc - 1, ok |-> TRUE]
  ELSE closeScan(instrs, pc - 1, closeBalance(At(instrs, pc), balance))

\* closeLoop giving up quietly at the start of the instructions
closeLoopStopsAtStart(instrs, pc) ==
  IF closeScan(instrs, pc, 0).ok THEN closeScan(instrs, pc, 0)
  ELSE [PC |-> -1, ok |-> TRUE]

\* closeLoop stopping at the nearest loop-open, nested or not
closeLoopNearestOpen(instrs, pc) ==
  LET earlier == {i \in 0..(pc - 1) : At(instrs, i) = LOOPL}
  IN IF earlier = {} THEN [PC |-> -1, ok |-> FALSE]
     ELSE [PC |-> (CHOOSE i \in earlier : \A k \in earlier : k <= i) - 1,
           ok |-> TRUE]

\* closeLoop leaving PC on the loop-open, so that the shared increment
\* re-enters the body without a test
closeLoopOntoOpen(instrs, pc) ==
  [PC |-> closeScan(instrs, pc, 0).PC + 1, ok |-> closeScan(instrs, pc, 0).ok]

closeLoop(instrs, pc) == closeScan(instrs, pc, 0)

(***************************************************************************)
(* The switch of Evaluate (gobfk.go:116-135) on token tok: the effect on   *)
(* DP, PC, the tape, the input position and the output, and whether it     *)
(* ended without a panic.  fill is what a READ takes from the input.       *)
(***************************************************************************)
TapeOk(b) == InRange(b.DP, TapeLen)

\* bf.DP-- that stops at the left end of the tape
MoveLeftClamped(dp) == IF dp = 0 THEN 0 ELSE dp - 1

\* bf.DP++ and bf.DP--
MoveRight(dp) == dp + 1

MoveLeft(dp) == dp - 1

\* an assignment that always lands in the first cell
StoreInFirstCell(tape, dp, value) == [tape EXCEPT ![0] = value]

\* bf.Tape[bf.DP] = value
Store(tape, dp, value) == [tape EXCEPT ![dp] = value]

Dispatch(b, tape, data, pos, fill) ==
  LET tok == At(b.Instructions, b.PC)
      same == [DP |-> b.DP, PC |-> b.PC, tape |-> tape, pos |-> pos,
               out |-> <<>>, ok |-> TRUE]
      fault == [same EXCEPT !.ok = FALSE]
  IN CASE tok = RIGHT -> [same EXCEPT !.DP = MoveRight(b.DP)]
       [] tok = LEFT -> [same EXCEPT !.DP = MoveLeft(b.DP)]
       [] tok = INC ->
            IF TapeOk(b)
            THEN [same EXCEPT !.tape = Store(tape, b.DP, IncByte(tape[b.DP]))]
            ELSE fault
       [] tok = DEC ->
            IF TapeOk(b)
            THEN [same EXCEPT !.tape = Store(tape, b.DP, DecByte(tape[b.DP]))]
            ELSE fault
       [] tok = PRINT ->
            IF TapeOk(b)
            THEN [same EXCEPT !.out = PrintChar(tape[b.DP])]
            ELSE fault
       [] tok = READ ->
            IF TapeOk(b)
            THEN [same EXCEPT !.pos = pos + fill,
                              !.tape = Store(tape, b.DP,
                                             ToByte(ReadRune(data, pos)))]
            ELSE [fault EXCEPT !.pos = pos + fill]
       [] tok = LOOPL ->
            IF TapeOk(b)
            THEN LET r == openLoop(b.Instructions, b.PC, tape[b.DP])
                 IN [same EXCEPT !.PC = r.PC, !.ok = r.ok]
            ELSE fault
       [] tok = LOOPR ->
            LET r == closeLoop(b.Instructions, b.PC)
            IN [same EXCEPT !.PC = r.PC, !.ok = r.ok]
       [] OTHER -> same

\* the end test with > for >=
IsPastEndStrict(pc, n) == pc > n

\* the end of Evaluate (gobfk.go:136-140)
IsPastEnd(pc, n) == pc >= n

Advance(b) ==
  [b EXCEPT !.PC = b.PC + 1,
            !.Finished = IF IsPastEnd(b.PC + 1, Len(b.Instructions)) THEN TRUE ELSE @]

(***************************************************************************)
(* Evaluate (gobfk.go:115-141): one step of program p.                     *)
(***************************************************************************)
Evaluate(p) ==
  /\ bf[p].Created
  /\ ~panicked
  /\ steps' = [steps EXCEPT ![p] = @ + 1]
  /\ IF ~InRange(bf[p].PC, Len(bf[p].Instructions))
     THEN /\ panicked' = TRUE
          /\ UNCHANGED <<bf, heap, stdinPos, stdout, hits>>
     ELSE \E fill \in (IF At(bf[p].Instructions, bf[p].PC) = READ
                       THEN Fills(stdinData, stdinPos) ELSE {0}) :
            LET b == bf[p]
                r == Dispatch(b, heap[b.Tape], stdinData, stdinPos, fill)
                moved == [b EXCEPT !.DP = r.DP, !.PC = r.PC]
            IN /\ hits' = [hits EXCEPT ![p][b.PC + 1] = @ + 1]
               /\ heap' = [heap EXCEPT ![b.Tape] = r.tape]
               /\ stdinPos' = r.pos
               /\ stdout' = stdout \o r.out
               /\ panicked' = ~r.ok
               /\ bf' = [bf EXCEPT ![p] = IF r.ok THEN Advance(moved) ELSE moved]
  /\ UNCHANGED <<input, stdinData>>

(***************************************************************************)
(* main (gobfk.go:54-57): for bf.Finished != true { bf.Evaluate() }        *)
(***************************************************************************)
main(p) == bf[p].Created /\ ~bf[p].Finished /\ Evaluate(p)

\* main, followed for MaxSteps steps
mainBounded(p) == steps[p] < MaxSteps /\ main(p)

(***************************************************************************)
(* Specifications.                                                         *)
(***************************************************************************)
\* the standard input is only ever looked at by a READ: a source text without
\* ',' is run on the empty input alone
InitWith(sources, inputs) ==
  /\ input \in sources
  /\ stdinData \in (IF \E i \in 1..Len(input) : input[i] = ChRead
                     THEN inputs ELSE {<<>>})
  /\ stdinPos = 0
  /\ bf = [p \in ProgIds |-> NoProg]
  /\ heap = <<>>
  /\ stdout = <<>>
  /\ panicked = FALSE
  /\ steps = [p \in ProgIds |-> 0]
  /\ hits = [p \in ProgIds |-> <<>>]

\* one program, every short source text and the scenarios
Init == InitWith(Sources, SeqsUpTo(InChars, MaxIn))

Next == Create("a") \/ mainBounded("a")

Spec == Init /\ [][Next]_vars

\* one program, the sources of '+' runs, followed to the end
InitInc == InitWith(IncSources, {<<>>})

NextInc == Create("a") \/ main("a")

SpecInc == InitInc /\ [][NextInc]_vars

\* two programs created from the same text, stepped in any order
InitTwo == InitWith(TwoSources, SeqsUpTo(InChars, MaxIn))

NextTwo == \E p \in ProgIds : Create(p) \/ mainBounded(p)

SpecTwo == InitTwo /\ [][NextTwo]_vars

(***************************************************************************)
(* Vocabulary of the properties.                                           *)
(***************************************************************************)
Prog == bf["a"]

\* the tape of a created program
Cells(p) == heap[bf[p].Tape]

Count(instrs, tok, k) == Cardinality({i \in 1..k : instrs[i] = tok})

\* brackets properly nested: no prefix closes more than it opens, and the
\* whole sequence opens as many as it closes
Balanced(instrs) ==
  /\ \A k \in 1..Len(instrs) : Count(instrs, LOOPL, k) >= Count(instrs, LOOPR, k)
  /\ Count(instrs, LOOPL, Len(instrs)) = Count(instrs, LOOPR, Len(instrs))

BracketFree(text) == \A i \in 1..Len(text) : text[i] \notin {ChLoopL, ChLoopR}

\* the step being taken is an Evaluate of p that dispatches token tok
Dispatched(p, tok) ==
  /\ bf[p].Created
  /\ steps'[p] = steps[p] + 1
  /\ InRange(bf[p].PC, Len(bf[p].Instructions))
  /\ At(bf[p].Instructions, bf[p].PC) = tok

\* and it returns
Stepped(p, tok) == Dispatched(p, tok) /\ ~panicked'

CountIn(instrs, tok, i, j) == Cardinality({m \in i..j : instrs[m] = tok})

\* the loop-open at i and the loop-close at j are a pair
Matched(instrs, i, j) ==
  /\ i < j
  /\ instrs[i] = LOOPL
  /\ instrs[j] = LOOPR
  /\ CountIn(instrs, LOOPL, i, j) = CountIn(instrs, LOOPR, i, j)
  /\ \A m \in i..(j - 1) : CountIn(instrs, LOOPL, i, m) > CountIn(instrs, LOOPR, i, m)

\* the bracket at k has no partner
Unmatched(instrs, k) ==
  /\ instrs[k] \in {LOOPL, LOOPR}
  /\ \A m \in 1..Len(instrs) : ~Matched(instrs, k, m) /\ ~Matched(instrs, m, k)

(***************************************************************************)
(* C1: under the caller protocol (create, then step while Finished is      *)
(* false), for every source text, the empty one included, PC is a valid    *)
(* index into Instructions whenever a step begins, and PC equals           *)
(* len(Instructions) only when Finished is true.                           *)
(***************************************************************************)
C1_CursorValidAtStep ==
  (Prog.Created /\ ~panicked) =>
    /\ ~Prog.Finished => InRange(Prog.PC, Len(Prog.Instructions))
    /\ Prog.PC = Len(Prog.Instructions) => Prog.Finished

(***************************************************************************)
(* C2: create followed by repeated steps terminates with Finished = true;  *)
(* in particular for every bracket-free source the run never stops short   *)
(* of Finished: in every state the program is finished or can step.        *)
(***************************************************************************)
C2_BracketFreeTerminates ==
  (Prog.Created /\ BracketFree(input)) => (Prog.Finished \/ ENABLED main("a"))

(***************************************************************************)
(* C3: tokenize emits exactly one instruction per character, in order:     *)
(* the eight symbols map to their tokens, every other character to         *)
(* COMMENT, and none is dropped.                                           *)
(***************************************************************************)
C3_TokenizeOnePerChar ==
  Prog.Created =>
    /\ Len(Prog.Instructions) = Len(input)
    /\ \A i \in 1..Len(input) :
         /\ input[i] = 62 => Prog.Instructions[i] = RIGHT
         /\ input[i] = 60 => Prog.Instructions[i] = LEFT
         /\ input[i] = 43 => Prog.Instructions[i] = INC
         /\ input[i] = 45 => Prog.Instructions[i] = DEC
         /\ input[i] = 46 => Prog.Instructions[i] = PRINT
         /\ input[i] = 44 => Prog.Instructions[i] = READ
         /\ input[i] = 91 => Prog.Instructions[i] = LOOPL
         /\ input[i] = 93 => Prog.Instructions[i] = LOOPR
         /\ input[i] \notin {62, 60, 43, 45, 46, 44, 91, 93}
              => Prog.Instructions[i] = COMMENT

\* a created program whose text mixes a letter, a newline and a bracket
C3_Witness ==
  /\ Prog.Created
  /\ Len(input) = 3
  /\ \E i, j, k \in 1..Len(input) :
       input[i] = ChLetter /\ input[j] = ChNewline /\ input[k] = ChLoopR

(***************************************************************************)
(* C4: for a non-empty program with properly nested brackets, after every  *)
(* step 0 <= PC <= len(Instructions), and Finished is true exactly when    *)
(* PC >= len(Instructions); once true, Finished is never reset.            *)
(***************************************************************************)
C4_State ==
  (Prog.Created /\ Len(Prog.Instructions) > 0 /\ Balanced(Prog.Instructions)) =>
    /\ 0 <= Prog.PC
    /\ Prog.PC <= Len(Prog.Instructions)
    /\ Prog.Finished <=> Prog.PC >= Len(Prog.Instructions)

C4_FinishedIffPastEnd ==
  /\ []C4_State
  /\ [][(Prog.Created /\ Prog.Finished) => (Prog.Created' /\ Prog.Finished')]_vars

\* a properly nested program that finished after closing a loop
C4_Witness ==
  /\ Prog.Created
  /\ Prog.Finished
  /\ Balanced(Prog.Instructions)
  /\ \E i \in 1..Len(Prog.Instructions) :
       Prog.Instructions[i] = LOOPR /\ hits["a"][i] > 0

(***************************************************************************)
(* C5: cell arithmetic wraps modulo 256: an INC step takes 255 to 0 and    *)
(* any other value v to v + 1, a DEC step takes 0 to 255 and any other     *)
(* value v to v - 1; every cell stays within 0..255.                       *)
(***************************************************************************)
C5_CellsAreBytes ==
  \A a \in 1..Len(heap) : \A i \in 0..(TapeLen - 1) : heap[a][i] \in 0..255

C5_IncStep ==
  Stepped("a", INC) =>
    Cells("a")'[Prog.DP] = IF Cells("a")[Prog.DP] = 255 THEN 0
                           ELSE Cells("a")[Prog.DP] + 1

C5_DecStep ==
  Stepped("a", DEC) =>
    Cells("a")'[Prog.DP] = IF Cells("a")[Prog.DP] = 0 THEN 255
                           ELSE Cells("a")[Prog.DP] - 1

C5_ByteWrap == []C5_CellsAreBytes /\ [][C5_IncStep /\ C5_DecStep]_vars

\* "-+" has run: the cell went 0 -> 255 -> 0
C5_Witness ==
  /\ input = <<ChDec, ChInc>>
  /\ Prog.Created
  /\ Prog.Finished
  /\ hits["a"] = <<1, 1>>
  /\ Cells("a")[0] = 0

(***************************************************************************)
(* C6: for k times '+' followed by "[-]", 1 <= k <= 255, the loop body     *)
(* runs exactly k times (once for "+[-]", taking the cell 1 -> 0); the     *)
(* loop-close hands control back to the loop-open, which re-tests the      *)
(* cell and on 0 skips past the loop-close; the run reaches Finished with  *)
(* the cell at 0 and nothing printed.                                      *)
(***************************************************************************)
LoopK == Len(input) - 3

IsIncLoop ==
  /\ LoopK \in 1..255
  /\ SubSeq(input, LoopK + 1, LoopK + 3) = <<ChLoopL, ChDec, ChLoopR>>
  /\ \A i \in 1..LoopK : input[i] = ChInc

C6_State ==
  (IsIncLoop /\ Prog.Created) =>
    /\ ~panicked
    /\ stdout = <<>>
    /\ hits["a"][LoopK + 2] <= LoopK
    /\ Prog.Finished \/ ENABLED main("a")
    /\ Prog.Finished =>
         /\ hits["a"][LoopK + 2] = LoopK
         /\ hits["a"][LoopK + 3] = LoopK
         /\ hits["a"][LoopK + 1] = LoopK + 1
         /\ Cells("a")[0] = 0

C6_Step ==
  IsIncLoop =>
    /\ Stepped("a", LOOPR) => Prog'.PC = LoopK
    /\ Stepped("a", DEC) => Cells("a")'[0] = Cells("a")[0] - 1
    /\ (Stepped("a", LOOPL) /\ Cells("a")[0] = 0) =>
         (Prog'.PC = LoopK + 3 /\ Prog'.Finished)
    /\ (Stepped("a", LOOPL) /\ Cells("a")[0] # 0) => Prog'.PC = LoopK + 1

C6_LoopBodyRunsKTimes == []C6_State /\ [][C6_Step]_vars

\* "+[-]" has run to the end: body once, loop-open tested twice
C6_Witness ==
  /\ input = <<ChInc, ChLoopL, ChDec, ChLoopR>>
  /\ Prog.Created
  /\ Prog.Finished
  /\ hits["a"] = <<1, 2, 1, 1>>
  /\ Cells("a")[0] = 0
  /\ stdout = <<>>

(***************************************************************************)
(* C7: for k times '+' followed by ".", on a fresh tape, the run prints    *)
(* exactly one character, of value k mod 256 (2 for "++."), and ends with  *)
(* Finished = true.                                                        *)
(***************************************************************************)
IsIncPrint ==
  /\ Len(input) >= 1
  /\ input[Len(input)] = ChPrint
  /\ \A i \in 1..(Len(input) - 1) : input[i] = ChInc

C7_OneOutputOfKMod256 ==
  (IsIncPrint /\ Prog.Created) =>
    /\ ~panicked
    /\ Prog.Finished \/ ENABLED main("a")
    /\ ~Prog.Finished => stdout = <<>>
    /\ Prog.Finished => stdout = <<(Len(input) - 1) % 256>>
    /\ (Prog.Finished /\ input = <<ChInc, ChInc, ChPrint>>) => stdout = <<2>>

\* 256 times '+' then '.': the one character printed is 0
C7_Witness ==
  /\ IsIncPrint
  /\ Len(input) = 257
  /\ Prog.Created
  /\ Prog.Finished
  /\ stdout = <<0>>

(***************************************************************************)
(* C8: for ",." and an input whose first character has code c, the READ    *)
(* step stores c mod 256 in the current cell and the PRINT step prints     *)
(* exactly that value; input 65 gives output 65.                           *)
(***************************************************************************)
IsReadPrint == input = <<ChRead, ChPrint>> /\ stdinData # <<>>

C8_ReadThenPrint ==
  (IsReadPrint /\ Prog.Created) =>
    /\ ~panicked
    /\ hits["a"][1] = 0 => stdout = <<>>
    /\ (hits["a"][1] = 1 /\ hits["a"][2] = 0) =>
         (Cells("a")[0] = stdinData[1] % 256 /\ stdout = <<>>)
    /\ Prog.Finished => stdout = <<stdinData[1] % 256>>
    /\ (Prog.Finished /\ stdinData[1] = 65) => stdout = <<65>>

\* ",." has run on an input starting with U+0142: 66 is printed
C8_Witness ==
  /\ IsReadPrint
  /\ stdinData[1] = 322
  /\ Prog.Created
  /\ Prog.Finished
  /\ stdout = <<66>>

(***************************************************************************)
(* C9: a run that executes an unmatched bracket never completes with       *)
(* Finished = true: the step executing it scans out of the bounds of the   *)
(* instruction sequence, which is fatal.                                   *)
(***************************************************************************)
C9_UnmatchedNeverFinishes ==
  Prog.Created =>
    ~(/\ Prog.Finished
      /\ \E k \in 1..Len(Prog.Instructions) :
           hits["a"][k] > 0 /\ Unmatched(Prog.Instructions, k))

(***************************************************************************)
(* C9, amended: a step executing an unmatched loop-close always scans      *)
(* below index 0 (fatal); a step executing an unmatched loop-open scans    *)
(* past the end (fatal) when the current cell is 0, and when the cell is   *)
(* not 0 it scans nothing and returns with PC advanced by one.             *)
(***************************************************************************)
C9_AtUnmatched(tok) ==
  /\ Dispatched("a", tok)
  /\ Unmatched(Prog.Instructions, Prog.PC + 1)

C9_Step ==
  /\ C9_AtUnmatched(LOOPR) => (panicked' /\ Prog'.PC = -1 /\ ~Prog'.Finished)
  /\ (C9_AtUnmatched(LOOPL) /\ TapeOk(Prog) /\ Cells("a")[Prog.DP] = 0) =>
       (panicked' /\ Prog'.PC = Len(Prog.Instructions) /\ ~Prog'.Finished)
  /\ (C9_AtUnmatched(LOOPL) /\ TapeOk(Prog) /\ Cells("a")[Prog.DP] # 0) =>
       (~panicked' /\ Prog'.PC = Prog.PC + 1)

C9_UnmatchedScan == [][C9_Step]_vars

\* a run that executed an unmatched loop-open on a nonzero cell and finished
C9_Witness ==
  /\ Prog.Created
  /\ Prog.Finished
  /\ \E k \in 1..Len(Prog.Instructions) :
       /\ Prog.Instructions[k] = LOOPL
       /\ hits["a"][k] > 0
       /\ Unmatched(Prog.Instructions, k)

(***************************************************************************)
(* C10: create is a pure function of its text: two programs created from   *)
(* the same text have the same instructions, and each starts with an       *)
(* all-zero tape of the fixed length, DP = 0, PC = 0, Finished = false;    *)
(* a step of one program never changes the other.                          *)
(***************************************************************************)
C10_Fresh(p) ==
  (bf[p].Created /\ steps[p] = 0) =>
    /\ DOMAIN Cells(p) = 0..(TapeLen - 1)
    /\ \A i \in DOMAIN Cells(p) : Cells(p)[i] = 0
    /\ bf[p].DP = 0
    /\ bf[p].PC = 0
    /\ bf[p].Finished = FALSE

C10_State ==
  /\ \A p \in ProgIds : C10_Fresh(p)
  /\ (bf["a"].Created /\ bf["b"].Created) =>
       /\ bf["a"].Instructions = bf["b"].Instructions
       /\ DOMAIN Cells("a") = DOMAIN Cells("b")

C10_Step ==
  \A q \in ProgIds :
    (bf[q].Created /\ steps'[q] = steps[q]) =>
      (bf'[q] = bf[q] /\ Cells(q)' = Cells(q))

C10_CreateIsPure == []C10_State /\ [][C10_Step]_vars

\* program a has written its tape, program b is created and still fresh
C10_Witness ==
  /\ bf["a"].Created
  /\ bf["b"].Created
  /\ steps["a"] > 0
  /\ steps["b"] = 0
  /\ Cells("a")[0] # 0
  /\ Cells("b")[0] = 0

(***************************************************************************)
(* C11: jump-forward.  A step executing the loop-open at index i of a      *)
(* properly nested program leaves PC one past the matching loop-close when *)
(* the current cell is 0, and at i + 1 when it is not; in the zero case no *)
(* instruction of the loop body, nested loops included, is executed.       *)
(***************************************************************************)
\* the 1-based position of the loop-close paired with the loop-open at i
MatchClose(instrs, i) == CHOOSE j \in 1..Len(instrs) : Matched(instrs, i, j)

\* the 1-based position of the loop-open paired with the loop-close at j
MatchOpen(instrs, j) == CHOOSE i \in 1..Len(instrs) : Matched(instrs, i, j)

C11_Step ==
  (Stepped("a", LOOPL) /\ Balanced(Prog.Instructions)) =>
    /\ Cells("a")[Prog.DP] = 0 =>
         /\ Prog'.PC = MatchClose(Prog.Instructions, Prog.PC + 1)
         /\ \A k \in (Prog.PC + 2)..MatchClose(Prog.Instructions, Prog.PC + 1) :
              hits'["a"][k] = hits["a"][k]
    /\ Cells("a")[Prog.DP] # 0 => Prog'.PC = Prog.PC + 1

C11_JumpForward == [][C11_Step]_vars

\* "[[]+]." has run: the outer loop, with the loop nested in it, was skipped
C11_Witness ==
  /\ input = <<ChLoopL, ChLoopL, ChLoopR, ChInc, ChLoopR, ChPrint>>
  /\ Prog.Created
  /\ Prog.Finished
  /\ hits["a"] = <<1, 0, 0, 0, 0, 1>>
  /\ stdout = <<0>>

(***************************************************************************)
(* C12: jump-backward.  A step executing the loop-close at index j of a    *)
(* properly nested program scans backward whatever the cell holds, and     *)
(* after the step PC = i + 1, the first instruction of the loop body,      *)
(* where i is the index of the matching loop-open.                         *)
(***************************************************************************)
C12_OriginalStep ==
  (Stepped("a", LOOPR) /\ Balanced(Prog.Instructions)) =>
    Prog'.PC = (MatchOpen(Prog.Instructions, Prog.PC + 1) - 1) + 1

C12_BackToBodyStart == [][C12_OriginalStep]_vars

(***************************************************************************)
(* C12, amended: the backward scan, taken whatever the cell holds, leaves  *)
(* PC one before the matching loop-open; after the step PC = i, on the     *)
(* loop-open itself, which the next step executes and so re-tests the      *)
(* cell.  The step changes neither the tape nor DP.                        *)
(***************************************************************************)
C12_Step ==
  (Dispatched("a", LOOPR) /\ Balanced(Prog.Instructions)) =>
    /\ ~panicked'
    /\ Prog'.PC = MatchOpen(Prog.Instructions, Prog.PC + 1) - 1
    /\ At(Prog.Instructions, Prog'.PC) = LOOPL
    /\ ~Prog'.Finished
    /\ Prog'.DP = Prog.DP
    /\ heap' = heap

C12_JumpBackward == [][C12_Step]_vars

\* a loop-close has just handed control to its loop-open, on a nonzero cell
C12_Witness ==
  /\ Prog.Created
  /\ ~panicked
  /\ Balanced(Prog.Instructions)
  /\ InRange(Prog.PC, Len(Prog.Instructions))
  /\ At(Prog.Instructions, Prog.PC) = LOOPL
  /\ hits["a"][MatchClose(Prog.Instructions, Prog.PC + 1)] > 0
  /\ hits["a"][MatchClose(Prog.Instructions, Prog.PC + 1)] = hits["a"][Prog.PC + 1]
  /\ TapeOk(Prog)
  /\ Cells("a")[Prog.DP] # 0

(***************************************************************************)
(* C13: loops are while-nonzero.  In a run of a properly nested program,   *)
(* whenever PC stands one past a loop-close the current cell is 0: a loop  *)
(* is only left, or skipped, on a zero cell; a loop-close reached on a     *)
(* nonzero cell leads to the loop-open and from there into the body again. *)
(***************************************************************************)
C13_State ==
  (/\ Prog.Created
   /\ Balanced(Prog.Instructions)
   /\ Prog.PC >= 1
   /\ At(Prog.Instructions, Prog.PC - 1) = LOOPR) =>
    (TapeOk(Prog) /\ Cells("a")[Prog.DP] = 0)

C13_Step ==
  (Prog.Created /\ Balanced(Prog.Instructions)) =>
    /\ (Stepped("a", LOOPR) /\ TapeOk(Prog) /\ Cells("a")[Prog.DP] # 0) =>
         /\ At(Prog.Instructions, Prog'.PC) = LOOPL
         /\ Matched(Prog.Instructions, Prog'.PC + 1, Prog.PC + 1)
         /\ Cells("a")'[Prog'.DP] # 0
    /\ (Stepped("a", LOOPL) /\ Cells("a")[Prog.DP] # 0) =>
         /\ Prog'.PC = Prog.PC + 1
         /\ Prog'.PC < MatchClose(Prog.Instructions, Prog.PC + 1)
         /\ ~Prog'.Finished

C13_WhileNonzero == []C13_State /\ [][C13_Step]_vars

\* "++[>+<-]>." has left its loop after two rounds: PC one past the
\* loop-close, on a zero cell
C13_Witness ==
  /\ input = <<ChInc, ChInc, ChLoopL, ChRight, ChInc, ChLeft, ChDec, ChLoopR,
               ChRight, ChPrint>>
  /\ Prog.Created
  /\ Prog.PC = 8
  /\ hits["a"][8] = 2
  /\ hits["a"][3] = 3
  /\ Cells("a")[Prog.DP] = 0

(***************************************************************************)
(* C14: successive READ steps consume successive characters of the input:  *)
(* each reads exactly one character and leaves the rest available, so      *)
(* ",.,." run on an input of at least two characters prints the first two  *)
(* ("AB" for the input "AB").                                              *)
(***************************************************************************)
C14_SuccessiveReads ==
  (/\ input = <<ChRead, ChPrint, ChRead, ChPrint>>
   /\ Len(stdinData) >= 2
   /\ Prog.Created
   /\ Prog.Finished) =>
    stdout = <<stdinData[1] % 256, stdinData[2] % 256>>

(***************************************************************************)
(* C15: a READ step at the end of the input (the read fails), with DP      *)
(* inside the tape, leaves the current cell as it was, raises no fatal     *)
(* condition and advances PC by one.                                       *)
(***************************************************************************)
C15_AtEnd == Dispatched("a", READ) /\ stdinPos >= Len(stdinData) /\ TapeOk(Prog)

C15_OriginalStep ==
  C15_AtEnd =>
    /\ ~panicked'
    /\ Prog'.PC = Prog.PC + 1
    /\ Cells("a")'[Prog.DP] = Cells("a")[Prog.DP]

C15_EndOfInputKeepsCell == [][C15_OriginalStep]_vars

(***************************************************************************)
(* C15, amended: such a step sets the current cell to 0, whatever it held, *)
(* leaves the other cells alone, raises no fatal condition and advances PC *)
(* by one.                                                                 *)
(***************************************************************************)
C15_Step ==
  C15_AtEnd =>
    /\ ~panicked'
    /\ Prog'.PC = Prog.PC + 1
    /\ Cells("a")' = [Cells("a") EXCEPT ![Prog.DP] = 0]
    /\ Prog'.DP = Prog.DP
    /\ stdinPos' = stdinPos

C15_EndOfInputZeroesCell == [][C15_Step]_vars

\* "+," has run on the empty input: the cell that held 1 holds 0
C15_Witness ==
  /\ input = <<ChInc, ChRead>>
  /\ stdinData = <<>>
  /\ Prog.Created
  /\ Prog.Finished
  /\ ~panicked
  /\ hits["a"] = <<1, 1>>
  /\ Cells("a")[0] = 0

(***************************************************************************)
(* C16: DP is never checked, clamped or wrapped.  A RIGHT or LEFT step     *)
(* always succeeds and changes DP by exactly +1 or -1, so DP is the number *)
(* of RIGHT steps minus the number of LEFT steps executed, and may be      *)
(* negative or >= the tape length.  A fatal condition on the tape arises   *)
(* only at a step that accesses Tape[DP] (INC, DEC, PRINT, READ, LOOPL)    *)
(* with DP outside the tape; a program that moves out and back without     *)
(* such an access finishes normally.                                       *)
(***************************************************************************)
\* how many times the instructions that are tok were dispatched, among the
\* first k
RECURSIVE HitsOf(_, _, _, _)
HitsOf(instrs, h, tok, k) ==
  IF k = 0 THEN 0
  ELSE HitsOf(instrs, h, tok, k - 1) + (IF instrs[k] = tok THEN h[k] ELSE 0)

TapeAccess == {INC, DEC, PRINT, READ, LOOPL}

C16_State ==
  Prog.Created =>
    Prog.DP = HitsOf(Prog.Instructions, hits["a"], RIGHT, Len(Prog.Instructions))
              - HitsOf(Prog.Instructions, hits["a"], LEFT, Len(Prog.Instructions))

C16_Step ==
  /\ Dispatched("a", RIGHT) => (~panicked' /\ Prog'.DP = Prog.DP + 1)
  /\ Dispatched("a", LEFT) => (~panicked' /\ Prog'.DP = Prog.DP - 1)
  /\ Dispatched("a", COMMENT) => ~panicked'
  /\ \A tok \in TapeAccess :
       (Dispatched("a", tok) /\ ~TapeOk(Prog)) =>
         (panicked' /\ Prog'.PC = Prog.PC /\ Prog'.DP = Prog.DP /\ heap' = heap)
  /\ \A tok \in TapeAccess \ {LOOPL} :
       (Dispatched("a", tok) /\ TapeOk(Prog)) => ~panicked'
  /\ (Dispatched("a", LOOPR) /\ Balanced(Prog.Instructions)) => ~panicked'
  /\ (Dispatched("a", LOOPL) /\ Balanced(Prog.Instructions) /\ TapeOk(Prog)) =>
       ~panicked'

C16_UncheckedDataPointer == []C16_State /\ [][C16_Step]_vars

\* DP went to the tape length and came back before the next access: the
\* run finished
C16_Witness ==
  /\ input = Repeat(ChRight, TapeLen) \o <<ChLeft, ChInc, ChPrint>>
  /\ Prog.Created
  /\ Prog.Finished
  /\ ~panicked
  /\ hits["a"][TapeLen] = 1
  /\ Prog.DP = TapeLen - 1
  /\ stdout = <<1>>

(***************************************************************************)
(* C17: the frame of a step.  A COMMENT, LOOPL, LOOPR or PRINT step leaves *)
(* the tape and DP unchanged; a RIGHT or LEFT step leaves the tape         *)
(* unchanged; an INC, DEC or READ step leaves DP and every cell but        *)
(* Tape[DP] unchanged; no step changes the instructions or the tape        *)
(* length.                                                                 *)
(***************************************************************************)
C17_Step ==
  /\ \A tok \in {COMMENT, LOOPL, LOOPR, PRINT} :
       Dispatched("a", tok) => (heap' = heap /\ Prog'.DP = Prog.DP)
  /\ \A tok \in {RIGHT, LEFT} : Dispatched("a", tok) => heap' = heap
  /\ \A tok \in {INC, DEC, READ} :
       Dispatched("a", tok) =>
         /\ Prog'.DP = Prog.DP
         /\ \A i \in 0..(TapeLen - 1) :
              i # Prog.DP => Cells("a")'[i] = Cells("a")[i]
  /\ (Prog.Created /\ steps'["a"] # steps["a"]) =>
       /\ Prog'.Instructions = Prog.Instructions
       /\ Prog'.Tape = Prog.Tape
       /\ DOMAIN Cells("a")' = DOMAIN Cells("a")
       /\ Len(heap') = Len(heap)

C17_Frame == [][C17_Step]_vars

\* "->+" has run: the second cell was written, the first kept its 255
C17_Witness ==
  /\ input = <<ChDec, ChRight, ChInc>>
  /\ Prog.Created
  /\ Prog.Finished
  /\ Prog.DP = 1
  /\ Cells("a")[0] = 255
  /\ Cells("a")[1] = 1

(***************************************************************************)
(* C18: output comes from PRINT steps alone.  Each PRINT step appends      *)
(* exactly one character, the value of Tape[DP], to the output; every      *)
(* other step leaves the output unchanged; the output has as many          *)
(* characters as PRINT steps were executed.                                *)
(***************************************************************************)
\* the PRINT dispatched last ended in a panic instead of printing
C18_PrintFaulted ==
  /\ panicked
  /\ InRange(Prog.PC, Len(Prog.Instructions))
  /\ At(Prog.Instructions, Prog.PC) = PRINT

C18_State ==
  Prog.Created =>
    Len(stdout) = HitsOf(Prog.Instructions, hits["a"], PRINT, Len(Prog.Instructions))
                  - (IF C18_PrintFaulted THEN 1 ELSE 0)

C18_Step ==
  /\ Stepped("a", PRINT) => stdout' = Append(stdout, Cells("a")[Prog.DP])
  /\ \A tok \in {COMMENT, RIGHT, LEFT, INC, DEC, READ, LOOPL, LOOPR} :
       Dispatched("a", tok) => stdout' = stdout
  /\ (Dispatched("a", PRINT) /\ panicked') => stdout' = stdout

C18_OutputOnlyByPrint == []C18_State /\ [][C18_Step]_vars

\* ".-." has run: two PRINT steps, two characters, the cell's value each time
C18_Witness ==
  /\ input = <<ChPrint, ChDec, ChPrint>>
  /\ Prog.Created
  /\ Prog.Finished
  /\ hits["a"] = <<1, 1, 1>>
  /\ stdout = <<0, 255>>

(***************************************************************************)
(* C19: running "+[-]" from a fresh program reaches Finished = true after  *)
(* exactly 4 calls of Evaluate.                                            *)
(***************************************************************************)
IsPlusLoop == input = <<ChInc, ChLoopL, ChDec, ChLoopR>>

C19_FourSteps == (IsPlusLoop /\ Prog.Created /\ Prog.Finished) => steps["a"] = 4

(***************************************************************************)
(* C19, amended: it reaches Finished = true after exactly 5 calls of       *)
(* Evaluate: '+', '[' entering, '-', ']', and '[' again, which skips.      *)
(***************************************************************************)
C19_FiveSteps ==
  (IsPlusLoop /\ Prog.Created) =>
    /\ ~panicked
    /\ steps["a"] <= 5
    /\ Prog.Finished <=> steps["a"] = 5
    /\ steps["a"] = 4 => (Prog.PC = 1 /\ hits["a"] = <<1, 1, 1, 1>>)

\* "+[-]" finished, at its fifth step
C19_Witness ==
  /\ IsPlusLoop
  /\ Prog.Created
  /\ Prog.Finished
  /\ steps["a"] = 5
  /\ Prog.PC = 4

(***************************************************************************)
(* C20: a step executing a loop-close with no matching loop-open before it *)
(* always ends in a fatal access below index 0 of the instructions,        *)
(* whatever the current cell holds and wherever DP is (the backward scan   *)
(* never reads the tape); the tape and DP are unchanged by it.             *)
(***************************************************************************)
NoOpenBefore(instrs, j) == \A i \in 1..(j - 1) : ~Matched(instrs, i, j)

C20_Step ==
  (Dispatched("a", LOOPR) /\ NoOpenBefore(Prog.Instructions, Prog.PC + 1)) =>
    /\ panicked'
    /\ Prog'.PC = -1
    /\ ~InRange(Prog'.PC, Len(Prog.Instructions))
    /\ Prog'.DP = Prog.DP
    /\ heap' = heap
    /\ stdout' = stdout
    /\ ~Prog'.Finished

C20_UnmatchedCloseIsFatal == [][C20_Step]_vars

\* "<]" has run: the scan went below index 0 with DP left of the tape
C20_Witness ==
  /\ Prog.Created
  /\ panicked
  /\ Prog.PC = -1
  /\ Prog.DP = -1
  /\ Prog.Instructions = <<LEFT, LOOPR>>

====
